---- MODULE Spec2Model ----
(***************************************************************************)
(* A model of extract_dungeon_bin.py: the archive reader (script count,    *)
(* name table, offset table), the XOR decoder, the line-oriented dungeon   *)
(* script parser and the driver loop of main.                              *)
(*                                                                         *)
(* Bytes and characters are code points (integers); a string is a sequence *)
(* of code points.  The Python cursor is 0-based, sequences are 1-based:   *)
(* lines[cursor] of the source is lines[cursor + 1] here.                  *)
(***************************************************************************)
EXTENDS Integers, Sequences, FiniteSets, TLC

VARIABLES
    data,          \* main: the container's bytes
    src,           \* the (name, bytes) pairs and reserved bytes the container was laid out from
    script_count,  \* main: script_count (-1 before it is read)
    names,         \* main: names
    offsets,       \* main: offsets (with the sentinel once appended)
    index,         \* main: the loop index of "for index, name in enumerate(names)"
    filename,      \* main: filename of the script being processed
    decoded,       \* the bytes handed to parse_dungeon_script
    dunFiles,      \* the writes to output_dir, in order: [file, bytes]
    jsonFiles,     \* the writes to parsed_dir, in order: [file, parsed]
    printed,       \* the number printed by the summary line (-1: nothing printed)
    lines,         \* parse_dungeon_script: lines
    header,        \* parse_dungeon_script: header
    spawn_count,   \* parse_dungeon_script: spawn_count (-1 before it is read)
    spawns,        \* parse_dungeon_script: spawns
    cursor,        \* parse_dungeon_script: cursor
    block_count,   \* parse_dungeon_script: block_count (-1 before it is read)
    blocks,        \* parse_dungeon_script: blocks
    rectAt,        \* history, per block: the cursor when its loop turn began (from) and
                   \* when its rect line was read (rect)
    parsed,        \* the value parse_dungeon_script returned
    err,           \* the exception in flight (NoErr: none)
    pc             \* the position in main / parse_dungeon_script

vars == <<data, src, script_count, names, offsets, index, filename, decoded,
          dunFiles, jsonFiles, printed, lines, header, spawn_count, spawns,
          cursor, block_count, blocks, rectAt, parsed, err, pc>>

mainVars == <<data, src, script_count, names, offsets, index, filename,
              dunFiles, jsonFiles, printed>>

parseVars == <<lines, header, spawn_count, spawns, cursor, block_count,
               blocks, rectAt, parsed>>

(***************************************************************************)
(* Bounds of the model.                                                    *)
(***************************************************************************)
MaxShortLen == 3     \* free scripts: every sequence of at most this many lines
MaxBlocks == 2       \* structured scripts: declared block count at most this
MaxDrop == 9        \* structured scripts: up to this many trailing lines cut off
MaxScripts == 2      \* archives: at most this many scripts

(***************************************************************************)
(* Program constants.                                                      *)
(***************************************************************************)
SCRIPT_NAME_SIZE == 260
XOR_KEY == 255
NAMES_START == 16
COUNT_AT == 12
OFFSET_SIZE == 4
BLOCK_LINES == 8
TAB == 9
NUL == 0
REPLACEMENT == 65533

\* str.strip() with no argument removes these (the ASCII range of str.isspace)
Whitespace == {9, 10, 11, 12, 13, 28, 29, 30, 31, 32}
\* int() tolerates these around the literal
IntSpace == {9, 10, 11, 12, 13, 32}
\* str.splitlines() breaks at these (of the code points ASCII decoding can give)
LineBreaks == {10, 11, 12, 13, 28, 29, 30}
\* what \d matches among the code points ASCII decoding can give
Digits == 48 .. 57

Min(S) == CHOOSE x \in S : \A y \in S : x <= y
Max(S) == CHOOSE x \in S : \A y \in S : x >= y

\* Python's slice s[a:b] for 0 <= a, 0 <= b (0-based, clamped to the length)
Slice(s, a, b) ==
    LET hi == IF b < Len(s) THEN b ELSE Len(s)
    IN  IF a >= hi THEN <<>> ELSE SubSeq(s, a + 1, hi)

\* s[1:]
DropFirst(s) == SubSeq(s, 2, Len(s))

RECURSIVE Concat(_)
Concat(ss) == IF ss = <<>> THEN <<>> ELSE Head(ss) \o Concat(Tail(ss))

(***************************************************************************)
(* Text helpers.                                                           *)
(***************************************************************************)
\* bytes.decode("ascii", errors="replace")
AsciiDecode(bs) == [i \in 1 .. Len(bs) |-> IF bs[i] < 128 THEN bs[i] ELSE REPLACEMENT]

\* str.splitlines(): "\r\n" is one break, no empty last line after a final break
RECURSIVE SplitLines(_)
SplitLines(s) ==
    IF s = <<>> THEN <<>>
    ELSE IF \E i \in 1 .. Len(s) : s[i] \in LineBreaks
    THEN LET i == Min({k \in 1 .. Len(s) : s[k] \in LineBreaks})
             crlf == s[i] = 13 /\ i < Len(s) /\ s[i + 1] = 10
             next == IF crlf THEN i + 2 ELSE i + 1
         IN  <<SubSeq(s, 1, i - 1)>> \o SplitLines(SubSeq(s, next, Len(s)))
    ELSE <<s>>

\* str.strip()
Strip(s) ==
    LET keep == {i \in 1 .. Len(s) : s[i] \notin Whitespace}
    IN  IF keep = {} THEN <<>> ELSE SubSeq(s, Min(keep), Max(keep))

\* str.split("\t")
RECURSIVE SplitTab(_)
SplitTab(s) ==
    IF \E i \in 1 .. Len(s) : s[i] = TAB
    THEN LET i == Min({k \in 1 .. Len(s) : s[k] = TAB})
         IN  <<SubSeq(s, 1, i - 1)>> \o SplitTab(SubSeq(s, i + 1, Len(s)))
    ELSE <<s>>

\* str.replace("\t", "")
RemoveTabs(s) == SelectSeq(s, LAMBDA c : c # TAB)

\* re.search(r"\d", s) is not None
HasDigit(s) == \E i \in 1 .. Len(s) : s[i] \in Digits

RECURSIVE DecValue(_)
DecValue(ds) ==
    IF ds = <<>> THEN 0
    ELSE DecValue(SubSeq(ds, 1, Len(ds) - 1)) * 10 + (ds[Len(ds)] - 48)

\* int(re.search(r"(\d+)", s).group(1)): the leftmost, longest run of digits
FirstDigitRun(s) ==
    LET i == Min({k \in 1 .. Len(s) : s[k] \in Digits})
        j == Max({k \in i .. Len(s) : \A m \in i .. k : s[m] \in Digits})
    IN  DecValue(SubSeq(s, i, j))

\* the text int() reads once the surrounding blanks are gone
IntTrim(t) ==
    LET keep == {i \in 1 .. Len(t) : t[i] \notin IntSpace}
    IN  IF keep = {} THEN <<>> ELSE SubSeq(t, Min(keep), Max(keep))

\* whether int(t) succeeds: blanks, an optional sign, digits with single
\* underscores between them
IsIntLiteral(t) ==
    LET u == IntTrim(t)
        body == IF u # <<>> /\ u[1] \in {43, 45} THEN Tail(u) ELSE u
    IN  /\ body # <<>>
        /\ body[1] \in Digits
        /\ body[Len(body)] \in Digits
        /\ \A i \in 1 .. Len(body) : body[i] \in Digits \cup {95}
        /\ \A i \in 1 .. Len(body) - 1 : ~(body[i] = 95 /\ body[i + 1] = 95)

\* int(t) for a literal int() accepts
IntValue(t) ==
    LET u == IntTrim(t)
        neg == u[1] = 45
        body == IF u[1] \in {43, 45} THEN Tail(u) ELSE u
        v == DecValue(SelectSeq(body, LAMBDA c : c \in Digits))
    IN  IF neg THEN 0 - v ELSE v

\* the parts _parse_ints converts: "for part in parts if part"
NonEmptyParts(parts) == SelectSeq(parts, LAMBDA p : p # <<>>)

\* whether _parse_ints(parts) returns (int() raises ValueError otherwise)
ParseIntsOk(parts) == \A i \in 1 .. Len(parts) : parts[i] = <<>> \/ IsIntLiteral(parts[i])

_parse_ints(parts) ==
    LET ne == NonEmptyParts(parts)
    IN  [i \in 1 .. Len(ne) |-> IntValue(ne[i])]

\* line.strip().split("\t"), the argument every _parse_ints call is given
LineParts(line) == SplitTab(Strip(line))

(***************************************************************************)
(* Byte helpers.                                                           *)
(***************************************************************************)
RECURSIVE Xor(_, _)
Xor(a, b) ==
    IF a = 0 /\ b = 0 THEN 0
    ELSE (((a % 2) + (b % 2)) % 2) + 2 * Xor(a \div 2, b \div 2)

decode_script(chunk) == [i \in 1 .. Len(chunk) |-> Xor(chunk[i], XOR_KEY)]

\* int.from_bytes(chunk, "little"), of a chunk of any length (0 for none)
RECURSIVE FromLittle(_)
FromLittle(chunk) ==
    IF chunk = <<>> THEN 0 ELSE Head(chunk) + 256 * FromLittle(Tail(chunk))

(***************************************************************************)
(* Script texts.  A text is written as its code points; the comment holds  *)
(* the text.                                                               *)
(***************************************************************************)
L_x == <<120>>    \* 'x'
L_n1 == <<110, 49>>    \* 'n1'
L_spawn == <<49, 9, 49, 48>>    \* '1\t10'
L_five == <<53>>    \* '5'
L_zero == <<48>>    \* '0'
L_space == <<32>>    \* ' '
L_Spawns2 == <<83, 112, 97, 119, 110, 115, 58, 32, 50>>    \* 'Spawns: 2'
L_spawn2 == <<50, 9, 50, 48>>    \* '2\t20'
L_BlocksColon == <<66, 108, 111, 99, 107, 115, 58, 32>>    \* 'Blocks: '
L_rect == <<48, 9, 48, 9, 49, 48, 9, 49, 48>>    \* '0\t0\t10\t10'
L_enemies == <<51, 9, 49, 9, 50, 9, 51>>    \* '3\t1\t2\t3'
L_respawn == <<49, 9, 53>>    \* '1\t5'
L_clear == <<49, 9, 57>>    \* '1\t9'
L_vip == <<48>>    \* '0'
L_exceptional == <<50, 9, 52, 9, 53>>    \* '2\t4\t5'
L_text == <<72, 101, 108, 108, 111, 9, 119, 111, 114, 108, 100, 32>>    \* 'Hello\tworld '
L_countdown == <<67, 111, 117, 110, 116, 100, 111, 119, 110, 32, 51, 48>>    \* 'Countdown 30'
L_bad == <<55, 9, 98>>    \* '7\tb'
EOL_LF == <<10>>    \* '\n'
EOL_CRLF == <<13, 10>>    \* '\r\n'
N_ROOM01 == <<82, 79, 79, 77, 48, 49>>    \* 'ROOM01'
N_B_dun == <<66, 46, 100, 117, 110>>    \* 'B.dun'
EXT_DUN == <<46, 100, 117, 110>>    \* '.dun'
EXT_JSON == <<46, 106, 115, 111, 110>>    \* '.json'

L_padded == <<32, 49, 95, 48, 9, 43, 50, 32>>    \* ' 1_0\t+2 '
L_negative == <<45, 49, 9, 45, 50>>    \* '-1\t-2'
L_unit_sep == <<31, 51, 9, 52>>    \* '\x1f3\t4'
L_unit_sep_token == <<51, 9, 31, 52>>    \* '3\t\x1f4'
L_empty_part == <<49, 9, 9, 50>>    \* '1\t\t2'
L_spaced_token == <<49, 9, 32, 50>>    \* '1\t 2'
L_underscores == <<49, 95, 95, 48, 9, 50>>    \* '1__0\t2'
L_high_byte == <<49, 9, 200>>    \* '1\t\xc8'
L_lone_sign == <<49, 9, 45>>    \* '1\t-'

\* the lines joined into a text, each line ended by eol
RECURSIVE JoinLines(_, _)
JoinLines(ls, eol) ==
    IF ls = <<>> THEN <<>> ELSE Head(ls) \o eol \o JoinLines(Tail(ls), eol)

\* Free scripts: every sequence of at most MaxShortLen of these lines.
ShortLines == {<<>>, L_space, L_x, L_n1, L_spawn, L_five, L_zero}

ShortScripts ==
    {JoinLines(ls, EOL_LF) : ls \in UNION {[1 .. n -> ShortLines] : n \in 0 .. MaxShortLen}}

\* Structured scripts: a header declaring 2 spawns, 2 spawn lines with gap
\* blank lines between them, a block count line declaring k blocks and k
\* blocks of 8 lines, each with gap blank lines in front.  One line of one block may be replaced by a blank line or
\* by a line holding a token that is no integer, and the last lines of the
\* script may be missing.
BaseBlock ==
    <<L_rect, L_enemies, L_respawn, L_clear, L_vip, L_exceptional, L_text, L_countdown>>

Deviations(k) ==
    {[block |-> 0, pos |-> 0, line |-> <<>>]}
        \cup {[block |-> b, pos |-> p, line |-> l] :
                b \in 1 .. k, p \in 1 .. BLOCK_LINES, l \in {<<>>, L_space, L_bad}}

BlockLines(b, dev) ==
    [p \in 1 .. BLOCK_LINES |-> IF dev.block = b /\ dev.pos = p THEN dev.line ELSE BaseBlock[p]]

RECURSIVE BlocksLines(_, _, _, _)
BlocksLines(b, k, gap, dev) ==
    IF b > k THEN <<>>
    ELSE [i \in 1 .. gap |-> <<>>] \o BlockLines(b, dev) \o BlocksLines(b + 1, k, gap, dev)

LongLines(k, gap, dev) ==
    <<L_Spawns2, L_spawn>> \o [i \in 1 .. gap |-> <<>>]
        \o <<L_spawn2, L_BlocksColon \o <<48 + k>>>> \o BlocksLines(1, k, gap, dev)

DropLast(ls, d) == SubSeq(ls, 1, IF d < Len(ls) THEN Len(ls) - d ELSE 0)

LongScripts ==
    {JoinLines(DropLast(LongLines(k, gap, dev), d), eol) :
        k \in 0 .. MaxBlocks, gap \in 0 .. 1, dev \in Deviations(MaxBlocks),
        d \in 0 .. MaxDrop, eol \in {EOL_LF, EOL_CRLF}}

\* Scripts that try the conversions: a header declaring 1 spawn, one of these
\* lines as the spawn line and a block count of 0, with every line break
\* splitlines knows.
OddLines ==
    {L_padded, L_negative, L_unit_sep, L_unit_sep_token, L_empty_part, L_spaced_token,
     L_underscores, L_high_byte, L_lone_sign}

OddScripts ==
    {JoinLines(<<L_n1, l, L_zero>>, eol) :
        l \in OddLines, eol \in {EOL_LF, EOL_CRLF} \cup {<<b>> : b \in LineBreaks}}

\* the end-to-end scenario's script
ExampleScript == JoinLines(LongLines(1, 0, [block |-> 0, pos |-> 0, line |-> <<>>]), EOL_LF)

ScriptSet == ShortScripts \cup LongScripts \cup OddScripts

(***************************************************************************)
(* Archives, laid out as the reader expects them: 12 reserved bytes, the   *)
(* script count, the name slots, the offset table, the scripts' bytes.     *)
(***************************************************************************)
\* n as 4 little-endian bytes
ToLittle4(n) == [i \in 1 .. OFFSET_SIZE |-> (n \div (256 ^ (i - 1))) % 256]

NameSlot(name) == name \o [i \in 1 .. SCRIPT_NAME_SIZE - Len(name) |-> NUL]

NamesEnd(n) == NAMES_START + n * SCRIPT_NAME_SIZE
OffsetsEnd(n) == NamesEnd(n) + n * OFFSET_SIZE

\* the start of script i (1-based) of the pairs: the scripts follow the offset table
StartOf(pairs, i) == OffsetsEnd(Len(pairs)) + Len(Concat([j \in 1 .. i - 1 |-> pairs[j].bytes]))

ReservedBytes == [i \in 1 .. COUNT_AT |-> i]

BuildArchive(pairs) ==
    ReservedBytes
        \o ToLittle4(Len(pairs))
        \o Concat([i \in 1 .. Len(pairs) |-> NameSlot(pairs[i].name)])
        \o Concat([i \in 1 .. Len(pairs) |-> ToLittle4(StartOf(pairs, i))])
        \o Concat([i \in 1 .. Len(pairs) |-> pairs[i].bytes])

\* the scripts the archives hold: the end-to-end scenario's, one with a spawn,
\* a line of text and no blocks,
\* one whose second spawn line has a single token, one whose block lacks 3 lines
MainScripts ==
    {ExampleScript,
     JoinLines(<<L_n1, L_spawn, L_x, L_zero>>, EOL_LF),
     JoinLines(<<L_Spawns2, L_spawn, L_five>>, EOL_LF),
     JoinLines(DropLast(LongLines(1, 0, [block |-> 0, pos |-> 0, line |-> <<>>]), 3), EOL_LF)}

NameSet == {N_ROOM01, N_B_dun}

\* a stored script is the text with every byte XORed by the key
PairSet == {[name |-> n, bytes |-> decode_script(t)] : n \in NameSet, t \in MainScripts}

PairSeqs == UNION {[1 .. n -> PairSet] : n \in 0 .. MaxScripts}

\* the lengths a container of n scripts and total bytes is cut to: the whole
\* container, and cuts inside the header, the name table and the offset table
CutSet(n, total) ==
    {total} \cup
    {c \in {0, COUNT_AT, COUNT_AT + 2, NAMES_START, NamesEnd(n) - SCRIPT_NAME_SIZE + 3,
            NamesEnd(n) - 1, NamesEnd(n), NamesEnd(n) + 2, OffsetsEnd(n) - 1, OffsetsEnd(n)} :
        0 <= c /\ c < total}

(***************************************************************************)
(* Exceptions.  type is the Python exception class, kind the message's     *)
(* fixed text; index and text are the values the message interpolates;     *)
(* script is the filename main's wrapper puts in front (empty: unwrapped). *)
(***************************************************************************)
NoErr == [type |-> "None", kind |-> "None", index |-> -1, text |-> <<>>, script |-> <<>>]

Raise(type, kind, idx, text) ==
    [type |-> type, kind |-> kind, index |-> idx, text |-> text, script |-> <<>>]

(***************************************************************************)
(* parse_dungeon_script                                                    *)
(***************************************************************************)
\* "while lines and not lines[0].strip(): lines.pop(0)"
RECURSIVE DropLeadingBlank(_)
DropLeadingBlank(ls) ==
    IF ls # <<>> /\ Strip(Head(ls)) = <<>> THEN DropLeadingBlank(Tail(ls)) ELSE ls

\* lines 45-50: split into lines, drop the leading blank ones, refuse an empty script
ParseEnter ==
    /\ pc = "parse"
    /\ LET ls == DropLeadingBlank(SplitLines(AsciiDecode(decoded)))
       IN  /\ lines' = ls
           /\ IF ls = <<>>
              THEN /\ err' = Raise("ValueError", "EmptyScript", -1, <<>>)
                   /\ pc' = "raised"
                   /\ header' = header
              ELSE /\ err' = err
                   /\ pc' = "findHeader"
                   /\ header' = <<>>
    /\ UNCHANGED <<spawn_count, spawns, cursor, block_count, blocks, rectAt, parsed>>
    /\ UNCHANGED <<mainVars, decoded>>

\* lines 53-54: one turn of "while lines and not re.search(r"\d", header)"
PopHeaderLine ==
    /\ pc = "findHeader"
    /\ lines # <<>>
    /\ ~HasDigit(header)
    /\ header' = Strip(Head(lines))
    /\ lines' = Tail(lines)
    /\ UNCHANGED <<spawn_count, spawns, cursor, block_count, blocks, rectAt, parsed>>
    /\ UNCHANGED <<mainVars, decoded, err, pc>>

\* lines 56-63: the header's first digit run is spawn_count
MatchHeader ==
    /\ pc = "findHeader"
    /\ ~(lines # <<>> /\ ~HasDigit(header))
    /\ IF HasDigit(header)
       THEN /\ spawn_count' = FirstDigitRun(header)
            /\ spawns' = <<>>
            /\ cursor' = 0
            /\ err' = err
            /\ pc' = "readSpawns"
       ELSE /\ err' = Raise("ValueError", "MissingSpawnCount", -1, <<>>)
            /\ pc' = "raised"
            /\ UNCHANGED <<spawn_count, spawns, cursor>>
    /\ UNCHANGED <<lines, header, block_count, blocks, rectAt, parsed>>
    /\ UNCHANGED <<mainVars, decoded>>

\* a spawn loop that gives up one spawn early
SpawnLoopCond_short(sp, n, c, ls) == Len(sp) + 1 < n /\ c < Len(ls)

\* line 64: the spawn loop's condition
SpawnLoopCond(sp, n, c, ls) == Len(sp) < n /\ c < Len(ls)

\* a check that lets a single token pass
TooFewTokens_one(tokens) == Len(tokens) < 1

\* line 70
TooFewTokens(tokens) == Len(tokens) < 2

\* the first token taken for the last
SpawnValue_first(tokens) == tokens[1]

\* line 72: tokens[-1]
SpawnValue(tokens) == tokens[Len(tokens)]

\* lines 64-72: one turn of the spawn loop
ReadSpawnLine ==
    /\ pc = "readSpawns"
    /\ SpawnLoopCond(spawns, spawn_count, cursor, lines)
    /\ LET line == Strip(lines[cursor + 1])
           parts == SplitTab(line)
           tokens == _parse_ints(parts)
       IN  /\ cursor' = cursor + 1
           /\ IF line = <<>>
              THEN UNCHANGED <<spawns, err, pc>>
              ELSE IF ~ParseIntsOk(parts)
              THEN /\ err' = Raise("ValueError", "InvalidIntLiteral", -1, <<>>)
                   /\ pc' = "raised"
                   /\ spawns' = spawns
              ELSE IF TooFewTokens(tokens)
              THEN /\ err' = Raise("ValueError", "MalformedSpawnLine", Len(spawns), line)
                   /\ pc' = "raised"
                   /\ spawns' = spawns
              ELSE /\ spawns' = Append(spawns, SpawnValue(tokens))
                   /\ UNCHANGED <<err, pc>>
    /\ UNCHANGED <<lines, header, spawn_count, block_count, blocks, rectAt, parsed>>
    /\ UNCHANGED <<mainVars, decoded>>

\* line 64: the spawn loop's condition fails
SpawnsDone ==
    /\ pc = "readSpawns"
    /\ ~SpawnLoopCond(spawns, spawn_count, cursor, lines)
    /\ pc' = "skipToBlockCount"
    /\ UNCHANGED <<parseVars, mainVars, decoded, err>>

\* a skip that passes blank lines only
SkipCond_blank(ls, c) == c < Len(ls) /\ Strip(ls[c + 1]) = <<>>

\* the condition of the loop of lines 74-75
SkipCond(ls, c) == c < Len(ls) /\ ~HasDigit(ls[c + 1])

\* lines 74-75: one turn of the skip to the block count line
SkipNonDigitLine ==
    /\ pc = "skipToBlockCount"
    /\ SkipCond(lines, cursor)
    /\ cursor' = cursor + 1
    /\ UNCHANGED <<lines, header, spawn_count, spawns, block_count, blocks, rectAt, parsed>>
    /\ UNCHANGED <<mainVars, decoded, err, pc>>

\* lines 77-87: the block count
ReadBlockCount ==
    /\ pc = "skipToBlockCount"
    /\ ~SkipCond(lines, cursor)
    /\ IF cursor >= Len(lines)
       THEN /\ err' = Raise("ValueError", "MissingBlockCount", -1, <<>>)
            /\ pc' = "raised"
            /\ UNCHANGED <<cursor, block_count, blocks>>
       ELSE IF ~HasDigit(lines[cursor + 1])
       THEN /\ err' = Raise("ValueError", "MalformedBlockCountLine", -1, lines[cursor + 1])
            /\ pc' = "raised"
            /\ UNCHANGED <<cursor, block_count, blocks>>
       ELSE /\ block_count' = FirstDigitRun(lines[cursor + 1])
            /\ cursor' = cursor + 1
            /\ blocks' = <<>>
            /\ err' = err
            /\ pc' = "readBlocks"
    /\ UNCHANGED <<lines, header, spawn_count, spawns, rectAt, parsed>>
    /\ UNCHANGED <<mainVars, decoded>>

\* no skip of the blank lines in front of a block
SkipBlank_none(ls, c) == c

\* lines 89-90: the cursor once the blank lines in front of a block are passed
RECURSIVE SkipBlank(_, _)
SkipBlank(ls, c) ==
    IF c < Len(ls) /\ Strip(ls[c + 1]) = <<>> THEN SkipBlank(ls, c + 1) ELSE c

\* a field that keeps its first token
FieldOf_keep(raw) == raw

\* "x[1:] if x else []"
FieldOf(raw) == IF raw # <<>> THEN DropFirst(raw) ELSE <<>>

\* lines 116-117
CountdownOf(line) == IF HasDigit(line) THEN FirstDigitRun(line) ELSE 0

\* lines 92-128: the block whose rect line is lines[c]
BlockAt(ls, c) ==
    [rect        |-> _parse_ints(LineParts(ls[c + 1])),
     enemies     |-> FieldOf(_parse_ints(LineParts(ls[c + 2]))),
     respawn     |-> FieldOf(_parse_ints(LineParts(ls[c + 3]))),
     clear       |-> FieldOf(_parse_ints(LineParts(ls[c + 4]))),
     vip         |-> FieldOf(_parse_ints(LineParts(ls[c + 5]))),
     exceptional |-> FieldOf(_parse_ints(LineParts(ls[c + 6]))),
     text        |-> Strip(RemoveTabs(ls[c + 7])),
     countdown   |-> CountdownOf(Strip(ls[c + 8]))]

\* the statements of lines 92-114 that raise, as offsets from the rect line:
\* lines[cursor] past the end (any of the 8), int() on a token (the first 6)
BlockFailures(ls, c) ==
    {k \in 0 .. BLOCK_LINES - 1 :
        \/ c + k >= Len(ls)
        \/ k < 6 /\ ~ParseIntsOk(LineParts(ls[c + k + 1]))}

\* lines 88-130: one turn of the block loop
ReadBlock ==
    /\ pc = "readBlocks"
    /\ Len(blocks) < block_count
    /\ LET c == SkipBlank(lines, cursor)
           bad == BlockFailures(lines, c)
       IN  IF bad = {}
           THEN /\ blocks' = Append(blocks, BlockAt(lines, c))
                /\ rectAt' = Append(rectAt, [from |-> cursor, rect |-> c])
                /\ cursor' = c + BLOCK_LINES
                /\ UNCHANGED <<err, pc>>
           ELSE LET k == Min(bad)
                IN  /\ cursor' = c + k
                    /\ err' = IF c + k >= Len(lines)
                              THEN Raise("IndexError", "ListIndexOutOfRange", -1, <<>>)
                              ELSE Raise("ValueError", "InvalidIntLiteral", -1, <<>>)
                    /\ pc' = "raised"
                    /\ UNCHANGED <<blocks, rectAt>>
    /\ UNCHANGED <<lines, header, spawn_count, spawns, block_count, parsed>>
    /\ UNCHANGED <<mainVars, decoded>>

\* line 132
ParseReturn ==
    /\ pc = "readBlocks"
    /\ ~(Len(blocks) < block_count)
    /\ parsed' = [spawns |-> spawns, blocks |-> blocks]
    /\ pc' = "returned"
    /\ UNCHANGED <<lines, header, spawn_count, spawns, cursor, block_count, blocks, rectAt>>
    /\ UNCHANGED <<mainVars, decoded, err>>

ParseNext ==
    \/ ParseEnter
    \/ PopHeaderLine
    \/ MatchHeader
    \/ ReadSpawnLine
    \/ SpawnsDone
    \/ SkipNonDigitLine
    \/ ReadBlockCount
    \/ ReadBlock
    \/ ParseReturn

\* main's variables before main has run
MainIdle ==
    /\ data = <<>>
    /\ src = [pairs |-> <<>>, cut |-> 0]
    /\ script_count = -1
    /\ names = <<>>
    /\ offsets = <<>>
    /\ index = 0
    /\ filename = <<>>
    /\ dunFiles = <<>>
    /\ jsonFiles = <<>>
    /\ printed = -1

\* parse_dungeon_script's variables before it is called
ParseIdle ==
    /\ lines = <<>>
    /\ header = <<>>
    /\ spawn_count = -1
    /\ spawns = <<>>
    /\ cursor = 0
    /\ block_count = -1
    /\ blocks = <<>>
    /\ rectAt = <<>>
    /\ parsed = [spawns |-> <<>>, blocks |-> <<>>]

\* a call of parse_dungeon_script on any script of ScriptSet
InitParse ==
    /\ MainIdle
    /\ ParseIdle
    /\ decoded \in ScriptSet
    /\ err = NoErr
    /\ pc = "parse"

SpecParse == InitParse /\ [][ParseNext]_vars

(***************************************************************************)
(* The archive reader and main                                             *)
(***************************************************************************)
\* lines 20-21: the slot's bytes up to the first NUL
NameBytes(d, i, start) ==
    LET block == Slice(d, start + i * SCRIPT_NAME_SIZE, start + (i + 1) * SCRIPT_NAME_SIZE)
        nuls == {j \in 1 .. Len(block) : block[j] = NUL}
    IN  IF nuls = {} THEN block ELSE SubSeq(block, 1, Min(nuls) - 1)

\* the indices at which read_script_names raises: a byte that is not ASCII
\* (decode("ascii") is strict here), or an empty name
NameFailures(d, count, start) ==
    {i \in 0 .. count - 1 :
        LET nm == NameBytes(d, i, start)
        IN  nm = <<>> \/ \E j \in 1 .. Len(nm) : nm[j] >= 128}

\* lines 17-25, when no slot raises
read_script_names(d, count, start) == [i \in 1 .. count |-> NameBytes(d, i - 1, start)]

\* offsets read big-endian
read_offsets_big(d, count, start) ==
    [i \in 1 .. count |->
        LET chunk == Slice(d, start + (i - 1) * OFFSET_SIZE, start + i * OFFSET_SIZE)
        IN  FromLittle([j \in 1 .. Len(chunk) |-> chunk[Len(chunk) + 1 - j]])]

\* lines 28-33
read_offsets(d, count, start) ==
    [i \in 1 .. count |->
        FromLittle(Slice(d, start + (i - 1) * OFFSET_SIZE, start + i * OFFSET_SIZE))]

EndsWith(s, suffix) ==
    Len(s) >= Len(suffix) /\ SubSeq(s, Len(s) - Len(suffix) + 1, Len(s)) = suffix

\* line 184
FilenameOf(name) == IF ~EndsWith(name, EXT_DUN) THEN name \o EXT_DUN ELSE name

\* Path(filename).stem, of a filename without a path separator
Stem(fn) ==
    LET dots == {i \in 1 .. Len(fn) : fn[i] = 46}
    IN  IF dots # {} /\ Max(dots) > 1 /\ Max(dots) < Len(fn)
        THEN SubSeq(fn, 1, Max(dots) - 1)
        ELSE fn

\* line 192
JsonNameOf(fn) == Stem(fn) \o EXT_JSON

\* lines 166-169
ReadCount ==
    /\ pc = "main"
    /\ script_count' = FromLittle(Slice(data, COUNT_AT, COUNT_AT + OFFSET_SIZE))
    /\ pc' = "readNames"
    /\ UNCHANGED <<data, src, names, offsets, index, filename, dunFiles, jsonFiles, printed>>
    /\ UNCHANGED <<parseVars, decoded, err>>

\* line 170: an exception of read_script_names leaves main as it is
ReadNames ==
    /\ pc = "readNames"
    /\ LET bad == NameFailures(data, script_count, NAMES_START)
       IN  IF bad = {}
           THEN /\ names' = read_script_names(data, script_count, NAMES_START)
                /\ pc' = "readOffsets"
                /\ err' = err
           ELSE LET i == Min(bad)
                    nm == NameBytes(data, i, NAMES_START)
                IN  /\ err' = IF nm = <<>>
                              THEN Raise("ValueError", "EmptyScriptName", i, <<>>)
                              ELSE Raise("UnicodeDecodeError", "AsciiCodec", -1, <<>>)
                    /\ pc' = "exit"
                    /\ names' = names
    /\ UNCHANGED <<data, src, script_count, offsets, index, filename, dunFiles, jsonFiles, printed>>
    /\ UNCHANGED <<parseVars, decoded>>

\* lines 172-177 (creating the two directories is left to the file system)
ReadOffsets ==
    /\ pc = "readOffsets"
    /\ offsets' = Append(read_offsets(data, script_count, NamesEnd(script_count)), Len(data))
    /\ index' = 0
    /\ pc' = "loop"
    /\ UNCHANGED <<data, src, script_count, names, filename, dunFiles, jsonFiles, printed>>
    /\ UNCHANGED <<parseVars, decoded, err>>

\* lines 179-189: decode the next script, write the .dun file, call the parser
DecodeAndWrite ==
    /\ pc = "loop"
    /\ index < Len(names)
    /\ LET chunk == Slice(data, offsets[index + 1], offsets[index + 2])
           fn == FilenameOf(names[index + 1])
       IN  /\ decoded' = decode_script(chunk)
           /\ filename' = fn
           /\ dunFiles' = Append(dunFiles, [file |-> fn, bytes |-> decode_script(chunk)])
    /\ lines' = <<>>
    /\ header' = <<>>
    /\ spawn_count' = -1
    /\ spawns' = <<>>
    /\ cursor' = 0
    /\ block_count' = -1
    /\ blocks' = <<>>
    /\ rectAt' = <<>>
    /\ parsed' = [spawns |-> <<>>, blocks |-> <<>>]
    /\ pc' = "parse"
    /\ UNCHANGED <<data, src, script_count, names, offsets, index, jsonFiles, printed, err>>

\* lines 192-193, and the loop's next turn
WriteJson ==
    /\ pc = "returned"
    /\ jsonFiles' = Append(jsonFiles, [file |-> JsonNameOf(filename), parsed |-> parsed])
    /\ index' = index + 1
    /\ pc' = "loop"
    /\ UNCHANGED <<data, src, script_count, names, offsets, filename, dunFiles, printed>>
    /\ UNCHANGED <<parseVars, decoded, err>>

\* whether "except ValueError" catches the exception
CaughtAsValueError(e) == e.type \in {"ValueError", "UnicodeDecodeError"}

\* lines 190-191: the parser's ValueError is raised again with the filename in front
WrapError ==
    /\ pc = "raised"
    /\ CaughtAsValueError(err)
    /\ err' = [err EXCEPT !.type = "ValueError", !.script = filename]
    /\ pc' = "exit"
    /\ UNCHANGED <<mainVars, parseVars, decoded>>

\* lines 188-191: any other exception of the parser leaves main as it is
Propagate ==
    /\ pc = "raised"
    /\ ~CaughtAsValueError(err)
    /\ pc' = "exit"
    /\ UNCHANGED <<mainVars, parseVars, decoded, err>>

\* lines 195-197
PrintSummary ==
    /\ pc = "loop"
    /\ ~(index < Len(names))
    /\ printed' = Len(names)
    /\ pc' = "exit"
    /\ UNCHANGED <<data, src, script_count, names, offsets, index, filename, dunFiles, jsonFiles>>
    /\ UNCHANGED <<parseVars, decoded, err>>

MainNext ==
    \/ ReadCount
    \/ ReadNames
    \/ ReadOffsets
    \/ DecodeAndWrite
    \/ ParseEnter
    \/ PopHeaderLine
    \/ MatchHeader
    \/ ReadSpawnLine
    \/ SpawnsDone
    \/ SkipNonDigitLine
    \/ ReadBlockCount
    \/ ReadBlock
    \/ ParseReturn
    \/ WriteJson
    \/ WrapError
    \/ Propagate
    \/ PrintSummary

\* main on a container laid out from any pairs of PairSeqs and cut to any
\* length of CutSet
Init ==
    /\ \E p \in PairSeqs :
        \E c \in CutSet(Len(p), Len(BuildArchive(p))) :
            /\ src = [pairs |-> p, cut |-> c]
            /\ data = SubSeq(BuildArchive(p), 1, c)
    /\ script_count = -1
    /\ names = <<>>
    /\ offsets = <<>>
    /\ index = 0
    /\ filename = <<>>
    /\ dunFiles = <<>>
    /\ jsonFiles = <<>>
    /\ printed = -1
    /\ ParseIdle
    /\ decoded = <<>>
    /\ err = NoErr
    /\ pc = "main"

Spec == Init /\ [][MainNext]_vars

(***************************************************************************)
(* Properties                                                              *)
(***************************************************************************)
\* the reader has ended: main is past line 174, or read_script_names raised
ReaderDone == pc \notin {"main", "readNames", "readOffsets"}

\* the length of the whole container laid out from the pairs
ArchiveLen(pairs) == OffsetsEnd(Len(pairs)) + Len(Concat([i \in 1 .. Len(pairs) |-> pairs[i].bytes]))

\* the container was not cut
Whole == src.cut = ArchiveLen(src.pairs)

\* the exceptions that leave parse_dungeon_script
ParserErrors ==
    {"EmptyScript", "MissingSpawnCount", "MalformedSpawnLine", "MissingBlockCount",
     "MalformedBlockCountLine", "InvalidIntLiteral", "ListIndexOutOfRange"}

\* C1: when the parser runs past the end of the lines while it reads a block,
\* the failure that leaves main is a parse failure (a ValueError) whose
\* message names the script's filename.
C1_OutOfRangeNamesScript ==
    (pc = "exit" /\ err.kind = "ListIndexOutOfRange")
        => (err.type = "ValueError" /\ err.script = filename /\ filename # <<>>)

\* C2: for a container too short to hold its header, name table or offset
\* table the reader ends in a truncated-archive error: it returns no name,
\* no offset, and raises nothing else.
C2_TruncatedArchiveIsFatal ==
    (ReaderDone /\ src.cut < OffsetsEnd(Len(src.pairs)))
        => (pc = "exit" /\ err.kind = "TruncatedArchive" /\ names = <<>> /\ offsets = <<>>)

\* C3: from a whole container laid out from N (name, bytes) pairs the reader
\* recovers the N names in order; with the sentinel the offsets are N + 1
\* ascending positions from the end of the offset table to the container's
\* length, range i holds pair i's bytes, and the ranges in order make up the
\* bytes that follow the offset table.
C3_ArchiveRoundTrip ==
    (ReaderDone /\ Whole) =>
        LET n == Len(src.pairs)
            range(i) == Slice(data, offsets[i], offsets[i + 1])
        IN  /\ err.kind \notin {"EmptyScriptName", "AsciiCodec"}
            /\ script_count = n
            /\ names = [i \in 1 .. n |-> src.pairs[i].name]
            /\ Len(offsets) = n + 1
            /\ offsets[n + 1] = Len(data)
            /\ n > 0 => offsets[1] = OffsetsEnd(n)
            /\ \A i \in 1 .. n : offsets[i] <= offsets[i + 1]
            /\ \A i \in 1 .. n : range(i) = src.pairs[i].bytes
            /\ Concat([i \in 1 .. n |-> range(i)]) = SubSeq(data, OffsetsEnd(n) + 1, Len(data))

C3_Witness ==
    /\ pc = "loop"
    /\ Whole
    /\ Len(names) = 2
    /\ names[1] # names[2]
    /\ offsets[1] < offsets[2]
    /\ offsets[2] < offsets[3]

\* the script's lines as written (before the parser pops any)
ScriptLines == SplitLines(AsciiDecode(decoded))

IsBlank(l) == Strip(l) = <<>>

\* a line of at least two tab-separated integer tokens
IsSpawnLine(l) == ParseIntsOk(LineParts(l)) /\ Len(NonEmptyParts(LineParts(l))) >= 2

\* the k-th smallest element of a set of numbers
Nth(S, k) == CHOOSE x \in S : Cardinality({y \in S : y < x}) = k - 1

\* line h of L declares n; lines h+1 .. e are blank lines and exactly n spawn
\* lines, ending in one; a line with a digit (the block count line) follows
SpawnSection(L, h, e) ==
    /\ \A j \in h + 1 .. e : IsBlank(L[j]) \/ IsSpawnLine(L[j])
    /\ e > h => IsSpawnLine(L[e])
    /\ Cardinality({j \in h + 1 .. e : IsSpawnLine(L[j])}) = FirstDigitRun(L[h])
    /\ \E q \in e + 1 .. Len(L) : HasDigit(L[q])

\* the last integer token of each spawn line of L[h+1 .. e], in order
LastTokens(L, h, e) ==
    LET at == {j \in h + 1 .. e : IsSpawnLine(L[j])}
    IN  [k \in 1 .. Cardinality(at) |->
            LET t == NonEmptyParts(LineParts(L[Nth(at, k)]))
            IN  IntValue(t[Len(t)])]

\* the script's lines, the first line with a digit (0: none) and the ends of
\* the spawn section that make the script one C4 speaks of
C4_Cases ==
    LET L == ScriptLines
        withDigit == {j \in 1 .. Len(L) : HasDigit(L[j])}
        h == IF withDigit = {} THEN 0 ELSE Min(withDigit)
    IN  [lines |-> L, h |-> h,
         ends |-> IF h = 0 THEN {} ELSE {e \in h .. Len(L) : SpawnSection(L, h, e)}]

\* C4: when the first line with a digit declares n and n lines of two or more
\* integer tokens follow it (blank lines between them allowed), and a block
\* count line follows those, the spawns are the n lines' last tokens in
\* order: once the spawn loop has ended, in the returned result, and no
\* error of the header or the spawn section is raised.
C4_SpawnsAreLastTokens ==
    pc \in {"skipToBlockCount", "readBlocks", "returned", "raised"} =>
        LET case == C4_Cases
        IN  \A e \in case.ends :
                LET want == LastTokens(case.lines, case.h, e)
                IN  /\ pc # "raised" => (spawns = want /\ Len(spawns) = spawn_count)
                    /\ pc = "returned" => parsed.spawns = want
                    /\ pc = "raised"
                        => (err.kind \in {"ListIndexOutOfRange", "InvalidIntLiteral"}
                            /\ block_count >= 0 /\ spawns = want)
                    /\ decoded = ExampleScript => want = <<10, 20>>

C4_Witness ==
    /\ pc = "returned"
    /\ parsed.spawns = <<10, 20>>
    /\ LET case == C4_Cases
       IN  \E e \in case.ends : \E j \in case.h + 1 .. e : IsBlank(case.lines[j])

\* C5: when the parse of script k is the first to raise, the run ends with an
\* error naming script k's filename; the .dun and the .json of every script
\* before k are written, the .dun of k, no .json of k, nothing of a later
\* script, and no summary is printed.
C5_FailFast ==
    (pc = "exit" /\ err.kind \in ParserErrors) =>
        LET k == index + 1
        IN  /\ k <= Len(names)
            /\ err.script = FilenameOf(names[k])
            /\ Len(dunFiles) = k
            /\ \A j \in 1 .. k : dunFiles[j].file = FilenameOf(names[j])
            /\ Len(jsonFiles) = k - 1
            /\ \A j \in 1 .. k - 1 : jsonFiles[j].file = JsonNameOf(FilenameOf(names[j]))
            /\ printed = -1

\* the tokens of a block's line at offset o from its rect line
TokensAt(c, o) == _parse_ints(LineParts(lines[c + o + 1]))

\* C6: of the integer tokens [t0, t1, ..., tn] of a block's enemies, respawn,
\* clear, vip and exceptional lines the block's field is [t1, ..., tn], empty
\* for a single token and for a line without tokens; rect keeps every token.
C6_FieldsDropFirstToken ==
    \A i \in 1 .. Len(blocks) :
        LET c == rectAt[i].rect
            b == blocks[i]
            rest(t) == [j \in 1 .. Len(t) - 1 |-> t[j + 1]]
        IN  /\ b.rect = TokensAt(c, 0)
            /\ Len(b.rect) >= 1
            /\ b.enemies = rest(TokensAt(c, 1))
            /\ b.respawn = rest(TokensAt(c, 2))
            /\ b.clear = rest(TokensAt(c, 3))
            /\ b.vip = rest(TokensAt(c, 4))
            /\ b.exceptional = rest(TokensAt(c, 5))
            /\ lines[c + 1] = L_rect => b.rect = <<0, 0, 10, 10>>
            /\ lines[c + 2] = L_enemies => b.enemies = <<1, 2, 3>>
            /\ lines[c + 3] = L_respawn => b.respawn = <<5>>
            /\ lines[c + 5] = L_vip => b.vip = <<>>
            /\ lines[c + 6] = L_exceptional => b.exceptional = <<4, 5>>
            /\ \A o \in 1 .. 5 : IsBlank(lines[c + o + 1]) =>
                    <<b.enemies, b.respawn, b.clear, b.vip, b.exceptional>>[o] = <<>>

C6_Witness ==
    /\ pc = "returned"
    /\ Len(blocks) = 2
    /\ blocks[1].rect = <<0, 0, 10, 10>>
    /\ blocks[1].enemies = <<1, 2, 3>>
    /\ blocks[1].vip = <<>>
    /\ lines[rectAt[2].rect + 5] = L_vip
    /\ IsBlank(lines[rectAt[2].rect + 3])
    /\ blocks[2].respawn = <<>>

\* C7: while fewer than spawn_count spawns are collected, a non-blank spawn
\* line whose tokens are integers and fewer than 2 ends the parse in the
\* malformed-spawn-line error, which carries the number of spawns collected
\* so far and the line's text (stripped); nothing is returned.
C7_MalformedSpawnLine ==
    [][(/\ pc = "readSpawns"
        /\ SpawnLoopCond(spawns, spawn_count, cursor, lines)
        /\ ~IsBlank(lines[cursor + 1])
        /\ ParseIntsOk(LineParts(lines[cursor + 1]))
        /\ Len(NonEmptyParts(LineParts(lines[cursor + 1]))) < 2)
       => (/\ pc' = "raised"
           /\ err' = [type |-> "ValueError", kind |-> "MalformedSpawnLine",
                      index |-> Len(spawns), text |-> Strip(lines[cursor + 1]),
                      script |-> <<>>]
           /\ spawns' = spawns
           /\ parsed' = parsed)]_vars

C7_Witness ==
    /\ pc = "raised"
    /\ err.kind = "MalformedSpawnLine"
    /\ err.index = 1
    /\ err.text = L_five
    /\ Len(spawns) = 1

\* the spawn loop ended with fewer than spawn_count spawns, and not by an
\* exception of a spawn line
SpawnLoopLeftShort ==
    /\ pc \in {"skipToBlockCount", "readBlocks", "returned", "raised"}
    /\ spawn_count >= 0
    /\ Len(spawns) < spawn_count
    /\ ~(pc = "raised" /\ err.kind \in {"MalformedSpawnLine", "InvalidIntLiteral"})

\* C8 as claimed: when the lines run out before spawn_count spawns are
\* collected, no error is reported (and a result with fewer spawns is returned).
C8_SilentUnderfill == SpawnLoopLeftShort => pc # "raised"

\* C8 as amended: when the lines run out before spawn_count spawns are
\* collected the spawn loop raises nothing, and the parse then ends in the
\* missing-block-count error; a returned result has exactly spawn_count spawns.
C8_UnderfillEndsInMissingBlockCount ==
    /\ SpawnLoopLeftShort =>
        /\ cursor = Len(lines)
        /\ \/ pc = "skipToBlockCount" /\ err = NoErr
           \/ pc = "raised" /\ err.kind = "MissingBlockCount" /\ err.type = "ValueError"
    /\ pc = "returned" => Len(parsed.spawns) = spawn_count

C8_Witness ==
    /\ pc = "raised"
    /\ err.kind = "MissingBlockCount"
    /\ spawn_count = 5
    /\ Len(spawns) = 1

\* what C9 says of the blocks read so far
C9_Layout ==
    /\ pc = "returned" => (Len(parsed.blocks) = block_count /\ parsed.blocks = blocks)
    /\ Len(rectAt) = Len(blocks)
    /\ \A i \in 1 .. Len(blocks) :
        LET c == rectAt[i].rect
            b == blocks[i]
        IN  /\ rectAt[i].from <= c
            /\ \A j \in rectAt[i].from + 1 .. c : IsBlank(lines[j])
            /\ ~IsBlank(lines[c + 1])
            /\ c + BLOCK_LINES <= Len(lines)
            /\ b.rect = TokensAt(c, 0)
            /\ b.enemies = DropFirst(TokensAt(c, 1))
            /\ b.respawn = DropFirst(TokensAt(c, 2))
            /\ b.clear = DropFirst(TokensAt(c, 3))
            /\ b.vip = DropFirst(TokensAt(c, 4))
            /\ b.exceptional = DropFirst(TokensAt(c, 5))
            /\ b.text = Strip(RemoveTabs(lines[c + 7]))
            /\ b.countdown = (IF HasDigit(lines[c + 8]) THEN FirstDigitRun(lines[c + 8]) ELSE 0)
            /\ IF i < Len(blocks)
               THEN rectAt[i + 1].from = c + BLOCK_LINES
               ELSE pc \in {"readBlocks", "returned"} => cursor = c + BLOCK_LINES
            /\ i = 1 => (/\ rectAt[i].from >= 1
                         /\ HasDigit(lines[rectAt[i].from])
                         /\ FirstDigitRun(lines[rectAt[i].from]) = block_count)

\* C9: a successful parse has exactly block_count blocks; for each block the
\* cursor passes blank lines only in front of the rect line and then takes 8
\* consecutive lines as rect, enemies, respawn, clear, vip, exceptional, text
\* and countdown, a blank line among them included; the cursor never moves
\* backwards.
C9_BlocksTakeEightLines == []C9_Layout /\ [][cursor' >= cursor]_vars

C9_Witness ==
    /\ pc = "returned"
    /\ Len(blocks) = 2
    /\ rectAt[1].from < rectAt[1].rect
    /\ rectAt[2].from < rectAt[2].rect
    /\ IsBlank(lines[rectAt[2].rect + 7])
    /\ blocks[2].text = <<>>
    /\ blocks[2].countdown = 30

\* C10: the malformed-block-count-line error is never raised: the block
\* count step ends in the missing-block-count error or in a block count.
C10_MalformedBlockCountUnreachable ==
    /\ err.kind # "MalformedBlockCountLine"
    /\ pc \in {"readBlocks", "returned"} => block_count >= 0
    /\ (pc = "raised" /\ block_count = -1 /\ spawn_count >= 0)
        => err.kind \in {"MissingBlockCount", "MalformedSpawnLine", "InvalidIntLiteral"}

C10_Witness ==
    /\ pc = "readBlocks"
    /\ block_count = 0
    /\ cursor >= 2
    /\ ~HasDigit(lines[cursor - 1])
    /\ ~IsBlank(lines[cursor - 1])

====
